---- MODULE Spec2Model ----
(***************************************************************************)
(* Model of the seq_api_key resource of terraform-provider-seq:            *)
(* internal/provider/resource_api_key.go (the CRUD and import handlers and *)
(* the response merge) together with the HTTP client it calls (doJSON).    *)
(* One resource instance is followed through the calls the Terraform host  *)
(* makes on it; the Seq server's reply to each outbound call is arbitrary. *)
(***************************************************************************)
EXTENDS Integers, Sequences, FiniteSets, TLC

\* ------------------------------------------------------------------ bounds

\* Longest Permissions list a server reply carries.
MaxPermsLen == 1

\* ------------------------------------------------------- program constants

\* net/http StatusNotFound, as Read and Delete test it.
StatusNotFound == 404

\* NewClientFromConfig: the request timeout when timeout_seconds is 0 or unset.
DefaultTimeoutSeconds == 30

\* ------------------------------------------------ framework value types

\* types.String: null, unknown, or a known string. ValueString() of a null or
\* unknown value is "".
StringNull == [k |-> "null", v |-> ""]
StringUnknown == [k |-> "unknown", v |-> ""]
StringValue(s) == [k |-> "value", v |-> s]
IsNull(x) == x.k = "null"
IsUnknown(x) == x.k = "unknown"
ValueString(x) == x.v

\* types.Set of strings: null, or a known set of element values.
SetNull == [k |-> "null", e |-> {}]
SetValueMust(elems) == [k |-> "value", e |-> {elems[i] : i \in DOMAIN elems}]
stringSliceToAttrValues(vs) == [i \in DOMAIN vs |-> StringValue(vs[i])]

\* A Go []string: nil, or a (possibly empty) list.
NilSlice == [isnil |-> TRUE, l |-> <<>>]
Slice(l) == [isnil |-> FALSE, l |-> l]

\* --------------------------------------------------------------- the model

\* APIKeyModel, all attributes null: the raw value of a removed resource.
NullModel ==
  [ID |-> StringNull, Title |-> StringNull, Token |-> StringNull,
   OwnerID |-> StringNull, Permissions |-> SetNull]

\* resp.State.RemoveResource: the resource is gone from recorded state.
RemoveResource == [present |-> FALSE, m |-> NullModel]
\* resp.State.Set(ctx, &m)
StateSet(m) == [present |-> TRUE, m |-> m]

\* apiKeyResponse, zero value (what `var created apiKeyResponse` holds).
ZeroResponse ==
  [ID |-> "", Title |-> "", Token |-> "", OwnerID |-> "", Permissions |-> NilSlice]

\* ----------------------------------------------------------- input domains

IDs == {"k1", "k2"}
Titles == {"a"}
Tokens == {"t1", "t2"}
Owners == {"o1"}
PermNames == {"Read"}

PlanTitles == {"b"}
PlanOwners == {"o2"}
PlanPerms == {{"Ingest"}}
APIKeys == {"", "abc"}

PermLists == UNION {[1..n -> PermNames] : n \in 0..MaxPermsLen}

\* Every object a 2xx reply can decode to: a field missing from the JSON
\* leaves the Go zero value ("" or a nil list).
Responses ==
  [ID : IDs \cup {""}, Title : Titles \cup {""}, Token : Tokens \cup {""},
   OwnerID : Owners \cup {""},
   Permissions : {NilSlice} \cup {Slice(l) : l \in PermLists}]

\* What the transport and the server do with one request.
OKReplies ==
  {[transport |-> FALSE, status |-> 200, body |-> b, json |-> j] :
     <<b, j>> \in ({"empty", "malformed"} \X {ZeroResponse}) \cup ({"json"} \X Responses)}
  \cup {[transport |-> FALSE, status |-> 204, body |-> "empty", json |-> ZeroResponse]}
ErrReplies ==
  {[transport |-> FALSE, status |-> s, body |-> "empty", json |-> ZeroResponse] :
     s \in {404, 500}}
  \cup {[transport |-> TRUE, status |-> 0, body |-> "empty", json |-> ZeroResponse]}
Replies == OKReplies \cup ErrReplies
NoReply == [transport |-> FALSE, status |-> 0, body |-> "none", json |-> ZeroResponse]

\* The practitioner's configuration of the resource (schema: title required
\* with LengthAtLeast(1); owner_id and permissions optional).
Configs ==
  [Title : {StringValue(t) : t \in PlanTitles},
   OwnerID : {StringNull} \cup {StringValue(o) : o \in PlanOwners},
   Permissions : {SetNull} \cup {[k |-> "value", e |-> {StringValue(p) : p \in ps}] : ps \in PlanPerms}]

\* The plan the framework hands to Create/Update: configured values as
\* configured; computed attributes without configuration unknown; token
\* carries UseStateForUnknown, so it takes the prior state's value when there
\* is one.
PlanFor(cfg, prior) ==
  [ID |-> StringUnknown,
   Title |-> cfg.Title,
   Token |-> IF prior.present /\ ~IsNull(prior.m.Token) THEN prior.m.Token ELSE StringUnknown,
   OwnerID |-> IF IsNull(cfg.OwnerID) THEN StringUnknown ELSE cfg.OwnerID,
   Permissions |-> cfg.Permissions]

\* ------------------------------------------------------------ the client

NilClient == [isnil |-> TRUE, apiKey |-> ""]
NewClient(key) == [isnil |-> FALSE, apiKey |-> key]

NoBody == [x \in {} |-> x]

\* doJSON dropping the error of json.Unmarshal: a body that does not decode
\* leaves `out` as it was and reports success.
doJSONLenient(c, method, path, hasBody, body, outWanted, reply) ==
  LET req == [method |-> method, path |-> path,
              hasBody |-> hasBody, body |-> body,
              contentType |-> IF hasBody THEN "application/json" ELSE "",
              hasKey |-> c.apiKey # "", key |-> c.apiKey]
      R(e, s, o) == [req |-> req, err |-> e, status |-> s, out |-> o]
  IN  IF reply.transport THEN R("transport", 0, ZeroResponse)
      ELSE IF reply.status < 200 \/ reply.status > 299
        THEN R("http", reply.status, ZeroResponse)
      ELSE IF ~outWanted THEN R("nil", 0, ZeroResponse)
      ELSE IF reply.body = "json" THEN R("nil", 0, reply.json)
      ELSE R("nil", 0, ZeroResponse)

\* doJSON setting the X-Seq-ApiKey header inside the `if body != nil` block.
doJSONKeyOnBody(c, method, path, hasBody, body, outWanted, reply) ==
  LET req == [method |-> method, path |-> path,
              hasBody |-> hasBody, body |-> body,
              contentType |-> IF hasBody THEN "application/json" ELSE "",
              hasKey |-> hasBody /\ c.apiKey # "",
              key |-> IF hasBody THEN c.apiKey ELSE ""]
      R(e, s, o) == [req |-> req, err |-> e, status |-> s, out |-> o]
  IN  IF reply.transport THEN R("transport", 0, ZeroResponse)
      ELSE IF reply.status < 200 \/ reply.status > 299
        THEN R("http", reply.status, ZeroResponse)
      ELSE IF ~outWanted THEN R("nil", 0, ZeroResponse)
      ELSE IF reply.body = "empty" THEN R("nil", 0, ZeroResponse)
      ELSE IF reply.body = "malformed" THEN R("decode", 0, ZeroResponse)
      ELSE R("nil", 0, reply.json)

\* Client.doJSON: builds the request (JSON body when body != nil, the
\* X-Seq-ApiKey header when a key is configured), sends it, and classifies
\* the reply. The result carries the request as sent, the error (kind and
\* HTTP status) and the decoded value of `out`.
doJSON(c, method, path, hasBody, body, outWanted, reply) ==
  LET req == [method |-> method, path |-> path,
              hasBody |-> hasBody, body |-> body,
              contentType |-> IF hasBody THEN "application/json" ELSE "",
              hasKey |-> c.apiKey # "", key |-> c.apiKey]
      R(e, s, o) == [req |-> req, err |-> e, status |-> s, out |-> o]
  IN  IF reply.transport THEN R("transport", 0, ZeroResponse)
      ELSE IF reply.status < 200 \/ reply.status > 299
        THEN R("http", reply.status, ZeroResponse)
      ELSE IF ~outWanted THEN R("nil", 0, ZeroResponse)
      ELSE IF reply.body = "empty" THEN R("nil", 0, ZeroResponse)
      ELSE IF reply.body = "malformed" THEN R("decode", 0, ZeroResponse)
      ELSE R("nil", 0, reply.json)

\* IsNotFound without the status test: every HTTP error counts as not found.
IsNotFoundAnyStatus(res) == res.err = "http"

\* errors.As(err, &httpErr) && httpErr.StatusCode == http.StatusNotFound
IsNotFound(res) == res.err = "http" /\ res.status = StatusNotFound

\* ------------------------------------------------- provider configuration

\* types.Bool and types.Int64: null, or a known value.
BoolNull == [k |-> "null", v |-> FALSE]
BoolValue(b) == [k |-> "value", v |-> b]
Int64Null == [k |-> "null", v |-> 0]
Int64Value(n) == [k |-> "value", v |-> n]

stringValue(v) == IF IsNull(v) \/ IsUnknown(v) THEN "" ELSE ValueString(v)
boolValue(v) == IF IsNull(v) \/ IsUnknown(v) THEN FALSE ELSE v.v
int64Value(v) == IF IsNull(v) \/ IsUnknown(v) THEN 0 ELSE v.v

\* strings.TrimSpace on the strings of the model: " " is the one string made
\* of white space only, no other string starts or ends with white space.
TrimSpace(s) == IF s = " " THEN "" ELSE s

\* firstNonEmpty: the first argument that is not blank, as given; "" if none.
firstNonEmpty(vs) ==
  LET hits == {i \in DOMAIN vs : TrimSpace(vs[i]) # ""}
  IN  IF hits = {} THEN ""
      ELSE vs[CHOOSE i \in hits : \A j \in hits : i <= j]

\* url.Parse on the URLs of the model: a leading colon is a parse error
\* (missing protocol scheme); a bare word parses to a path without scheme
\* and host.
urlParse(s) ==
  CASE s = "http://a" -> [err |-> FALSE, Scheme |-> "http", Host |-> "a", raw |-> s]
    [] s = "http://b" -> [err |-> FALSE, Scheme |-> "http", Host |-> "b", raw |-> s]
    [] s = ":bad" -> [err |-> TRUE, Scheme |-> "", Host |-> "", raw |-> s]
    [] OTHER -> [err |-> FALSE, Scheme |-> "", Host |-> "", raw |-> s]

\* strconv.ParseBool on the strings of the model.
ParseBool(s) ==
  CASE s \in {"1", "t", "T", "TRUE", "true", "True"} -> [err |-> FALSE, v |-> TRUE]
    [] s \in {"0", "f", "F", "FALSE", "false", "False"} -> [err |-> FALSE, v |-> FALSE]
    [] OTHER -> [err |-> TRUE, v |-> FALSE]

\* strconv.ParseInt(s, 10, 64) on the strings of the model.
ParseInt(s) ==
  CASE s = "60" -> [err |-> FALSE, v |-> 60]
    [] s = "0" -> [err |-> FALSE, v |-> 0]
    [] OTHER -> [err |-> TRUE, v |-> 0]

\* SeqProviderModel, nothing configured, and an environment with no SEQ_*
\* variable set (os.Getenv returns "").
NullProviderModel ==
  [ServerURL |-> StringNull, APIKey |-> StringNull,
   InsecureSkipVerify |-> BoolNull, TimeoutSeconds |-> Int64Null]
EmptyEnv ==
  [SEQ_SERVER_URL |-> "", SEQ_API_KEY |-> "",
   SEQ_INSECURE_SKIP_VERIFY |-> "", SEQ_TIMEOUT_SECONDS |-> ""]

\* The *Client NewClientFromConfig returns: nil on an error, else the base
\* URL, the credential and the settings of its http.Client.
NilProviderClient ==
  [isnil |-> TRUE, apiKey |-> "", baseURL |-> "",
   insecureSkipVerify |-> FALSE, timeoutSeconds |-> 0]

HealthPath == [base |-> "/health", id |-> ""]

\* Client.Ping: GET /health, decoded into a map.
Ping(c, reply) == doJSON(c, "GET", HealthPath, FALSE, NoBody, TRUE, reply)

\* NewClientFromConfig: the error diagnostic ("" when none), the client, the
\* request of the connectivity check and whether its failure was logged.
NewClientFromConfig(cfg, env, reply) ==
  LET fail(d) == [diag |-> d, client |-> NilProviderClient, ping |-> <<>>, warned |-> FALSE]
      serverURL == firstNonEmpty(<<stringValue(cfg.ServerURL), env.SEQ_SERVER_URL>>)
      parsed == urlParse(serverURL)
      apiKey == firstNonEmpty(<<stringValue(cfg.APIKey), env.SEQ_API_KEY>>)
      envInsecure == ParseBool(env.SEQ_INSECURE_SKIP_VERIFY)
      insecureSkipVerify ==
        IF env.SEQ_INSECURE_SKIP_VERIFY # "" /\ ~envInsecure.err
        THEN envInsecure.v ELSE boolValue(cfg.InsecureSkipVerify)
      cfgTimeout ==
        IF int64Value(cfg.TimeoutSeconds) = 0 THEN DefaultTimeoutSeconds
        ELSE int64Value(cfg.TimeoutSeconds)
      envTimeout == ParseInt(env.SEQ_TIMEOUT_SECONDS)
      timeoutSeconds ==
        IF env.SEQ_TIMEOUT_SECONDS # "" /\ ~envTimeout.err THEN envTimeout.v ELSE cfgTimeout
      c == [isnil |-> FALSE, apiKey |-> apiKey, baseURL |-> parsed.raw,
            insecureSkipVerify |-> insecureSkipVerify, timeoutSeconds |-> timeoutSeconds]
      res == Ping(c, reply)
  IN  IF serverURL = "" THEN fail("Missing Seq server_url")
      ELSE IF parsed.err THEN fail("Invalid server_url")
      ELSE IF parsed.Scheme = "" \/ parsed.Host = "" THEN fail("Invalid server_url")
      ELSE [diag |-> "", client |-> c, ping |-> <<res.req>>, warned |-> res.err # "nil"]

\* ----------------------------------------------------------- the resource

checkConfigured(c) == ~c.isnil

\* IDMissing without the IsUnknown test.
IDMissingNullOnly(m) == IsNull(m.ID)

\* state.ID.IsNull() || state.ID.IsUnknown()
IDMissing(m) == IsNull(m.ID) \/ IsUnknown(m.ID)

APIKeysPath == "/api/apikeys"
APIKeyPath(m) == [base |-> APIKeysPath, id |-> ValueString(m.ID)]
CollectionPath == [base |-> APIKeysPath, id |-> ""]

\* apiKeyRequestBody without the empty-string test on the owner.
apiKeyRequestBodyAnyOwner(plan) ==
  LET title == "Title" :> ValueString(plan.Title)
      owner == IF ~IsNull(plan.OwnerID) /\ ~IsUnknown(plan.OwnerID)
               THEN "OwnerId" :> ValueString(plan.OwnerID) ELSE NoBody
      perms == IF ~IsNull(plan.Permissions) /\ ~IsUnknown(plan.Permissions)
               THEN "Permissions" :> {ValueString(p) : p \in plan.Permissions.e}
               ELSE NoBody
  IN  title @@ owner @@ perms

apiKeyRequestBody(plan) ==
  LET title == "Title" :> ValueString(plan.Title)
      owner == IF ~IsNull(plan.OwnerID) /\ ~IsUnknown(plan.OwnerID)
                  /\ ValueString(plan.OwnerID) # ""
               THEN "OwnerId" :> ValueString(plan.OwnerID) ELSE NoBody
      perms == IF ~IsNull(plan.Permissions) /\ ~IsUnknown(plan.Permissions)
               THEN "Permissions" :> {ValueString(p) : p \in plan.Permissions.e}
               ELSE NoBody
  IN  title @@ owner @@ perms

\* applyAPIKeyResponse without the Token branch.
applyAPIKeyResponseNoToken(state, resp) ==
  [ID |-> IF resp.ID # "" THEN StringValue(resp.ID) ELSE state.ID,
   Title |-> IF resp.Title # "" THEN StringValue(resp.Title) ELSE state.Title,
   Token |-> state.Token,
   OwnerID |-> IF resp.OwnerID # "" THEN StringValue(resp.OwnerID) ELSE state.OwnerID,
   Permissions |-> IF ~resp.Permissions.isnil
                   THEN SetValueMust(stringSliceToAttrValues(resp.Permissions.l))
                   ELSE state.Permissions]

applyAPIKeyResponse(state, resp) ==
  [ID |-> IF resp.ID # "" THEN StringValue(resp.ID) ELSE state.ID,
   Title |-> IF resp.Title # "" THEN StringValue(resp.Title) ELSE state.Title,
   Token |-> IF resp.Token # "" THEN StringValue(resp.Token) ELSE state.Token,
   OwnerID |-> IF resp.OwnerID # "" THEN StringValue(resp.OwnerID) ELSE state.OwnerID,
   Permissions |-> IF ~resp.Permissions.isnil
                   THEN SetValueMust(stringSliceToAttrValues(resp.Permissions.l))
                   ELSE state.Permissions]

\* ReadMerge writing the reply's token straight into state, empty or not.
ReadMergeDirect(state, got) ==
  [applyAPIKeyResponse(state, got) EXCEPT !.Token = StringValue(got.Token)]

\* ReadMerge with the retention test inverted.
ReadMergeInverted(state, got) ==
  LET newState == applyAPIKeyResponse(state, got)
  IN  IF got.Token # "" THEN [newState EXCEPT !.Token = state.Token] ELSE newState

\* Read, lines 157-163: the new state from the prior state and the reply.
ReadMerge(state, got) ==
  LET newState == applyAPIKeyResponse(state, got)
  IN  IF got.Token = "" THEN [newState EXCEPT !.Token = state.Token] ELSE newState

\* Update, lines 200-207: the new state from the plan, the prior state and
\* the reply.
UpdateMerge(plan, state, updated) ==
  LET newState == applyAPIKeyResponse([plan EXCEPT !.ID = state.ID], updated)
  IN  IF updated.Token = "" THEN [newState EXCEPT !.Token = state.Token] ELSE newState

\* What a handler leaves behind: the recorded state, the error diagnostic
\* ("" when none) and the outbound requests it issued.
Outcome(st, d, c) == [state |-> st, diag |-> d, calls |-> c]

\* Create: resp.State starts out null (prior, an absent resource).
CreateHandler(c, prior, plan, reply) ==
  IF ~checkConfigured(c) THEN Outcome(prior, "Provider not configured", <<>>)
  ELSE LET res == doJSON(c, "POST", CollectionPath, TRUE, apiKeyRequestBody(plan), TRUE, reply)
       IN  IF res.err # "nil"
           THEN Outcome(prior, "Failed to create Seq API key", <<res.req>>)
           ELSE Outcome(StateSet(applyAPIKeyResponse(plan, res.out)), "", <<res.req>>)

\* Read: resp.State starts out as the prior state.
ReadHandler(c, prior, reply) ==
  IF ~checkConfigured(c) THEN Outcome(prior, "Provider not configured", <<>>)
  ELSE IF IDMissing(prior.m) THEN Outcome(RemoveResource, "", <<>>)
  ELSE LET res == doJSON(c, "GET", APIKeyPath(prior.m), FALSE, NoBody, TRUE, reply)
       IN  IF res.err # "nil"
           THEN IF IsNotFound(res)
                THEN Outcome(RemoveResource, "", <<res.req>>)
                ELSE Outcome(prior, "Failed to read Seq API key", <<res.req>>)
           ELSE Outcome(StateSet(ReadMerge(prior.m, res.out)), "", <<res.req>>)

\* Update: resp.State starts out as the prior state.
UpdateHandler(c, prior, plan, reply) ==
  IF ~checkConfigured(c) THEN Outcome(prior, "Provider not configured", <<>>)
  ELSE IF IDMissing(prior.m) THEN Outcome(prior, "Missing id", <<>>)
  ELSE LET res == doJSON(c, "PUT", APIKeyPath(prior.m), TRUE, apiKeyRequestBody(plan), TRUE, reply)
       IN  IF res.err # "nil"
           THEN Outcome(prior, "Failed to update Seq API key", <<res.req>>)
           ELSE Outcome(StateSet(UpdateMerge(plan, prior.m, res.out)), "", <<res.req>>)

\* DeleteHandler refusing a missing id the way Update does.
DeleteHandlerRequiresID(c, prior, reply) ==
  LET done(d, calls) == Outcome(IF d = "" THEN RemoveResource ELSE prior, d, calls)
  IN  IF ~checkConfigured(c) THEN done("Provider not configured", <<>>)
      ELSE IF IDMissing(prior.m) THEN done("Missing id", <<>>)
      ELSE LET res == doJSON(c, "DELETE", APIKeyPath(prior.m), FALSE, NoBody, FALSE, reply)
           IN  IF res.err # "nil"
               THEN IF IsNotFound(res)
                    THEN done("", <<res.req>>)
                    ELSE done("Failed to delete Seq API key", <<res.req>>)
               ELSE done("", <<res.req>>)

\* DeleteHandler surfacing every error of the DELETE call, 404 included.
DeleteHandlerStrict(c, prior, reply) ==
  LET done(d, calls) == Outcome(IF d = "" THEN RemoveResource ELSE prior, d, calls)
  IN  IF ~checkConfigured(c) THEN done("Provider not configured", <<>>)
      ELSE IF IDMissing(prior.m) THEN done("", <<>>)
      ELSE LET res == doJSON(c, "DELETE", APIKeyPath(prior.m), FALSE, NoBody, FALSE, reply)
           IN  IF res.err # "nil"
               THEN done("Failed to delete Seq API key", <<res.req>>)
               ELSE done("", <<res.req>>)

\* Delete: the handler never writes resp.State; the framework removes the
\* resource when the handler returns without an error diagnostic.
DeleteHandler(c, prior, reply) ==
  LET done(d, calls) == Outcome(IF d = "" THEN RemoveResource ELSE prior, d, calls)
  IN  IF ~checkConfigured(c) THEN done("Provider not configured", <<>>)
      ELSE IF IDMissing(prior.m) THEN done("", <<>>)
      ELSE LET res == doJSON(c, "DELETE", APIKeyPath(prior.m), FALSE, NoBody, FALSE, reply)
           IN  IF res.err # "nil"
               THEN IF IsNotFound(res)
                    THEN done("", <<res.req>>)
                    ELSE done("Failed to delete Seq API key", <<res.req>>)
               ELSE done("", <<res.req>>)

\* ImportState: resource.ImportStatePassthroughID writes the given id to the
\* id attribute of an otherwise null state.
ImportStateHandler(id) ==
  Outcome(StateSet([NullModel EXCEPT !.ID = StringValue(id)]), "", <<>>)

\* ------------------------------------------------------------------ state

VARIABLES
  client,     \* APIKeyResource.client
  state,      \* recorded state of the resource instance
  importing,  \* an import awaits the Read that completes it
  pc,         \* "idle", or "awaiting": a handler blocks in its outbound call
  op,         \* the last handler the host called
  diag,       \* its error diagnostic, "" when none
  calls,      \* the outbound requests it issued
  pre,        \* recorded state when it was called
  plan,       \* the plan it was given (Create, Update)
  reply,      \* the server's reply to its request
  provider    \* SeqProvider.Configure: its inputs and what it produced

vars == <<client, state, importing, pc, op, diag, calls, pre, plan, reply, provider>>

\* The provider before Configure.
NoProvider ==
  [configured |-> FALSE, cfg |-> NullProviderModel, env |-> EmptyEnv,
   diag |-> "", client |-> NilProviderClient, ping |-> <<>>, warned |-> FALSE]

Init ==
  /\ client = NilClient
  /\ state = RemoveResource
  /\ importing = FALSE
  /\ pc = "idle"
  /\ op = "New"
  /\ diag = ""
  /\ calls = <<>>
  /\ pre = RemoveResource
  /\ plan = NullModel
  /\ reply = NoReply
  /\ provider = NoProvider

\* The outcome of handler `name` called with client c on recorded state st
\* with plan p, when the server answers its request (if any) with r.
Handle(name, c, st, p, r) ==
  CASE name = "Create" -> CreateHandler(c, st, p, r)
    [] name = "Read" -> ReadHandler(c, st, r)
    [] name = "Update" -> UpdateHandler(c, st, p, r)
    [] name = "Delete" -> DeleteHandler(c, st, r)
    [] name = "ImportState" -> ImportStateHandler(ValueString(p.ID))

\* An import is complete once the Read that follows it returns no error.
Importing(name, was, d) ==
  CASE name = "ImportState" -> TRUE
    [] name = "Read" -> was /\ d # ""
    [] OTHER -> was

\* The host calls handler `name` with plan p. A handler that returns before
\* its outbound call is done at once; otherwise the request is in flight and
\* the handler blocks until the reply.
Call(name, p) ==
  LET o == Handle(name, client, state, p, NoReply)
  IN  /\ pc = "idle"
      /\ ~client.isnil
      /\ op' = name
      /\ pre' = state
      /\ plan' = p
      /\ calls' = o.calls
      /\ reply' = NoReply
      /\ IF o.calls = <<>>
         THEN /\ pc' = "idle"
              /\ state' = o.state
              /\ diag' = o.diag
              /\ importing' = Importing(name, importing, o.diag)
         ELSE /\ pc' = "awaiting"
              /\ diag' = ""
              /\ UNCHANGED <<state, importing>>
      /\ UNCHANGED <<client, provider>>

\* The server (or the transport) answers the request in flight and the
\* blocked handler runs to its end.
Reply(r) ==
  LET o == Handle(op, client, pre, plan, r)
  IN  /\ pc = "awaiting"
      /\ pc' = "idle"
      /\ reply' = r
      /\ state' = o.state
      /\ diag' = o.diag
      /\ importing' = Importing(op, importing, o.diag)
      /\ UNCHANGED <<client, op, calls, pre, plan, provider>>

\* Configure: the provider hands the resource the client it configured.
Configure(key) ==
  /\ client.isnil
  /\ client' = NewClient(key)
  /\ UNCHANGED <<state, importing, pc, op, diag, calls, pre, plan, reply, provider>>

\* The host calls the CRUD handlers only after the provider is configured,
\* Create and ImportState only for a resource absent from recorded state,
\* the others only for a recorded one, and completes an import with a Read.
Create(cfg) == ~state.present /\ Call("Create", PlanFor(cfg, state))

Read == state.present /\ Call("Read", NullModel)

Update(cfg) == state.present /\ ~importing /\ Call("Update", PlanFor(cfg, state))

Delete == state.present /\ ~importing /\ Call("Delete", NullModel)

ImportState(id) ==
  ~state.present /\ Call("ImportState", [NullModel EXCEPT !.ID = StringValue(id)])

Next ==
  \/ \E key \in APIKeys : Configure(key)
  \/ \E cfg \in Configs : Create(cfg)
  \/ Read
  \/ \E cfg \in Configs : Update(cfg)
  \/ Delete
  \/ \E id \in IDs : ImportState(id)
  \/ \E r \in Replies : Reply(r)

Spec == Init /\ [][Next]_vars

\* ------------------------------------------- configuring the provider

\* What the practitioner writes in the provider block and what the
\* environment holds when the provider is configured.
ProviderConfigs ==
  [ServerURL : {StringNull, StringValue(" "), StringValue("http://a"), StringValue("nohost")},
   APIKey : {StringNull, StringValue(""), StringValue("abc")},
   InsecureSkipVerify : {BoolNull, BoolValue(TRUE), BoolValue(FALSE)},
   TimeoutSeconds : {Int64Null, Int64Value(0), Int64Value(10)}]
Envs ==
  [SEQ_SERVER_URL : {"", "http://b", ":bad"},
   SEQ_API_KEY : {"", "xyz"},
   SEQ_INSECURE_SKIP_VERIFY : {"", "true", "false", "yes"},
   SEQ_TIMEOUT_SECONDS : {"", "60", "abc"}]

\* Replies to the connectivity check.
PingReplies ==
  {[transport |-> FALSE, status |-> 200, body |-> "empty", json |-> ZeroResponse],
   [transport |-> TRUE, status |-> 0, body |-> "empty", json |-> ZeroResponse]}

\* SeqProvider.Configure: builds the client from the provider block and the
\* environment (NewClientFromConfig, the connectivity check included); on an
\* error no client is handed on.
ConfigureProvider(cfg, env, r) ==
  /\ ~provider.configured
  /\ client.isnil
  /\ LET o == NewClientFromConfig(cfg, env, r)
     IN  provider' = [configured |-> TRUE, cfg |-> cfg, env |-> env, diag |-> o.diag,
                      client |-> o.client, ping |-> o.ping, warned |-> o.warned]
  /\ UNCHANGED <<client, state, importing, pc, op, diag, calls, pre, plan, reply>>

\* Provider configuration alone, over every provider block and environment.
NextConfig ==
  \E cfg \in ProviderConfigs, env \in Envs, r \in PingReplies : ConfigureProvider(cfg, env, r)

SpecConfig == Init /\ [][NextConfig]_vars

\* ------------------------------------- the requests of a configured client

\* Provider blocks and environments that differ in the credential only.
KeyProviderConfigs ==
  {[NullProviderModel EXCEPT !.ServerURL = StringValue("http://a"), !.APIKey = k] :
     k \in {StringNull, StringValue("abc")}}
KeyEnvs == {[EmptyEnv EXCEPT !.SEQ_API_KEY = k] : k \in {"", "xyz"}}

\* Resource configurations, with an empty owner and an empty capability set.
BodyConfigs ==
  [Title : {StringValue(t) : t \in PlanTitles},
   OwnerID : {StringNull, StringValue("")} \cup {StringValue(o) : o \in PlanOwners},
   Permissions : {SetNull} \cup
     {[k |-> "value", e |-> {StringValue(p) : p \in ps}] : ps \in {{}, {"Ingest"}, {"Ingest", "Read"}}}]

\* One reply of each kind.
ClientReplies ==
  {[transport |-> FALSE, status |-> 200, body |-> "json",
    json |-> [ZeroResponse EXCEPT !.ID = "k1", !.Token = "t1"]],
   [transport |-> FALSE, status |-> 200, body |-> "empty", json |-> ZeroResponse],
   [transport |-> FALSE, status |-> 404, body |-> "empty", json |-> ZeroResponse],
   [transport |-> TRUE, status |-> 0, body |-> "empty", json |-> ZeroResponse]}

\* APIKeyResource.Configure with the client the provider built.
ConfigureResource ==
  /\ provider.configured
  /\ provider.diag = ""
  /\ Configure(provider.client.apiKey)

\* The provider is configured, hands its client to the resource, and the
\* host drives the resource.
NextClient ==
  \/ \E cfg \in KeyProviderConfigs, env \in KeyEnvs, r \in PingReplies :
       ConfigureProvider(cfg, env, r)
  \/ ConfigureResource
  \/ \E cfg \in BodyConfigs : Create(cfg)
  \/ Read
  \/ \E cfg \in BodyConfigs : Update(cfg)
  \/ Delete
  \/ \E id \in IDs : ImportState(id)
  \/ \E r \in ClientReplies : Reply(r)

SpecClient == Init /\ [][NextClient]_vars

\* The last handler has returned.
Done(name) == pc = "idle" /\ op = name

\* ------------------------------------------------- reading the last call

\* The last handler issued an outbound request.
Sent == calls # <<>>

\* The reply made the call fail: a transport error, a non-2xx status, or a
\* 2xx body that does not decode.
CallFailed ==
  reply.transport \/ reply.status < 200 \/ reply.status > 299 \/ reply.body = "malformed"

\* The reply was a 2xx whose body, if any, decoded.
CallOK == ~CallFailed

\* The response object the handler decoded: the reply's JSON, or the zero
\* value when the 2xx body was empty.
Got == IF reply.body = "json" THEN reply.json ELSE ZeroResponse

\* The reply was an HTTP 404.
Reply404 == ~reply.transport /\ reply.status = 404

HasToken(m) == m.Token.k = "value" /\ m.Token.v # ""
HasID(m) == m.ID.k = "value"

\* The set value holding the strings of a response list.
SetOf(l) == [k |-> "value", e |-> {[k |-> "value", v |-> l[i]] : i \in DOMAIN l}]

\* ------------------------------------------------------------------ claims

\* C1: once recorded state holds a non-empty token, no step leaves the token
\* empty, null or unknown while the resource stays in recorded state.
TokenNeverErased ==
  [][(state.present /\ HasToken(state.m) /\ state'.present) => HasToken(state'.m)]_vars

\* C1 witness: an Update whose reply carries no token ran on a state holding one.
TokenRetainedOnUpdate ==
  /\ Done("Update") /\ Sent /\ CallOK /\ Got.Token = ""
  /\ HasToken(pre.m) /\ state.present /\ state.m.Token = pre.m.Token

\* C2: after a successful Read of a resource with a recorded identifier, the
\* recorded token is the reply's token when that is non-empty, and the token
\* held before the call otherwise.
ReadTokenRule ==
  (Done("Read") /\ HasID(pre.m) /\ Sent /\ CallOK) =>
     /\ diag = "" /\ state.present
     /\ state.m.Token = IF Got.Token # "" THEN [k |-> "value", v |-> Got.Token]
                        ELSE pre.m.Token

\* C2 witness: a Read replaced a held token by the different one in the reply.
ReadReplacedToken ==
  /\ Done("Read") /\ Sent /\ CallOK /\ HasToken(pre.m)
  /\ Got.Token # "" /\ Got.Token # pre.m.Token.v /\ state.m.Token.v = Got.Token

\* C3: a Read whose GET returns 404 removes the resource (every field null)
\* without an error; a Read whose GET fails otherwise reports an error and
\* leaves recorded state as it was.
ReadNotFoundRule ==
  (Done("Read") /\ Sent) =>
     /\ Reply404 => (diag = "" /\ ~state.present /\ state.m = NullModel)
     /\ (CallFailed /\ ~Reply404) => (diag # "" /\ state = pre)

\* C3 witness: a Read of a fully recorded resource got a 404.
ReadGot404 ==
  Done("Read") /\ Sent /\ Reply404 /\ HasID(pre.m) /\ HasToken(pre.m) /\ ~state.present

\* C4: an Update on a state without identifier fails with the precondition
\* error, issues no request and leaves recorded state unchanged.
UpdateWithoutID ==
  (op = "Update" /\ ~HasID(pre.m)) =>
     pc = "idle" /\ diag = "Missing id" /\ calls = <<>> /\ state = pre

\* C4 witness: an Update ran on a recorded state whose identifier is unknown.
UpdateRanWithoutID == Done("Update") /\ pre.present /\ ~HasID(pre.m)

\* C5: a Delete on a state without identifier issues no request and reports
\* no error.
DeleteWithoutID ==
  (op = "Delete" /\ ~HasID(pre.m)) => pc = "idle" /\ calls = <<>> /\ diag = ""

\* C5 witness: a Delete ran on a recorded state whose identifier is unknown.
DeleteRanWithoutID == Done("Delete") /\ pre.present /\ ~HasID(pre.m)

\* C6: a Delete whose DELETE returns 404 ends exactly as one whose DELETE
\* succeeds (no error, resource removed); any other status or a transport
\* error is reported and the resource stays recorded.
DeleteIdempotent ==
  (Done("Delete") /\ Sent) =>
     IF Reply404 \/ (~reply.transport /\ reply.status >= 200 /\ reply.status <= 299)
     THEN diag = "" /\ state = RemoveResource
     ELSE diag # "" /\ state = pre

\* C6 witness: a Delete got a 404.
DeleteGot404 == Done("Delete") /\ Sent /\ Reply404 /\ diag = ""

\* C7 as claimed: after every successful Update or Read the recorded
\* identifier equals the identifier recorded before the call.
IdentifierImmutable ==
  (pc = "idle" /\ op \in {"Update", "Read"} /\ Sent /\ CallOK) =>
     state.m.ID = pre.m.ID

\* C8 as claimed: after every successful Create the recorded identifier,
\* token, title, owner and capability set equal the reply's, and the
\* identifier is known.
CreateCopiesResponse ==
  (Done("Create") /\ Sent /\ CallOK) =>
     /\ state.present /\ HasID(state.m)
     /\ state.m.ID = [k |-> "value", v |-> Got.ID]
     /\ state.m.Token = [k |-> "value", v |-> Got.Token]
     /\ state.m.Title = [k |-> "value", v |-> Got.Title]
     /\ state.m.OwnerID = [k |-> "value", v |-> Got.OwnerID]
     /\ state.m.Permissions = SetOf(Got.Permissions.l)

\* C8 amended: after every successful Create the resource is recorded; each
\* of identifier, title, token and owner is the reply's value when that is
\* non-empty and the planned value otherwise; the capability set is the
\* reply's list when that is non-empty and the planned set when the reply
\* has none; the identifier is known exactly when the reply carries one.
CreateMergesResponse ==
  (Done("Create") /\ Sent /\ CallOK) =>
     /\ diag = "" /\ state.present
     /\ state.m.ID = IF Got.ID # "" THEN [k |-> "value", v |-> Got.ID] ELSE plan.ID
     /\ state.m.Token = IF Got.Token # "" THEN [k |-> "value", v |-> Got.Token] ELSE plan.Token
     /\ state.m.Title = IF Got.Title # "" THEN [k |-> "value", v |-> Got.Title] ELSE plan.Title
     /\ state.m.OwnerID = IF Got.OwnerID # "" THEN [k |-> "value", v |-> Got.OwnerID] ELSE plan.OwnerID
     /\ Got.Permissions.l # <<>> => state.m.Permissions = SetOf(Got.Permissions.l)
     /\ Got.Permissions.isnil => state.m.Permissions = plan.Permissions
     /\ HasID(state.m) <=> Got.ID # ""

\* C8 witness: a Create whose reply carries identifier and token but no title.
CreateMergedPartialReply ==
  /\ Done("Create") /\ Sent /\ CallOK /\ ~pre.present
  /\ Got.ID = "k1" /\ Got.Token = "t1" /\ Got.Title = ""
  /\ state.m.ID.v = "k1" /\ state.m.Token.v = "t1" /\ state.m.Title = plan.Title

\* The value each field holds when the merge starts: the plan in Create, the
\* prior state in Read, the plan with the prior identifier in Update.
MergeBase ==
  CASE op = "Create" -> plan
    [] op = "Read" -> pre.m
    [] op = "Update" -> [plan EXCEPT !.ID = pre.m.ID]
    [] OTHER -> NullModel

\* C9 as claimed: the merge after Create, Read and Update takes identifier,
\* title, owner and capability set from the reply when the reply's value is
\* non-empty, and leaves the field as it was when the reply's value is empty
\* (an empty string, an absent list or an empty list).
MergeSkipsEmpty ==
  (pc = "idle" /\ op \in {"Create", "Read", "Update"} /\ Sent /\ CallOK) =>
     /\ state.m.ID = IF Got.ID # "" THEN [k |-> "value", v |-> Got.ID] ELSE MergeBase.ID
     /\ state.m.Title = IF Got.Title # "" THEN [k |-> "value", v |-> Got.Title] ELSE MergeBase.Title
     /\ state.m.OwnerID =
          IF Got.OwnerID # "" THEN [k |-> "value", v |-> Got.OwnerID] ELSE MergeBase.OwnerID
     /\ state.m.Permissions =
          IF Got.Permissions.l # <<>> THEN SetOf(Got.Permissions.l) ELSE MergeBase.Permissions

\* C10: when the call of a Create or an Update fails, an error is reported
\* and recorded state is what it was before the call (absent, for a Create).
FailedCallWritesNothing ==
  (pc = "idle" /\ op \in {"Create", "Update"} /\ Sent /\ CallFailed) =>
     /\ diag # "" /\ state = pre
     /\ op = "Create" => ~state.present

\* C10 witness: an Update of a recorded resource got a 2xx body that does
\* not decode, with a plan that differs from recorded state.
UpdateGotMalformedBody ==
  /\ Done("Update") /\ Sent /\ reply.body = "malformed" /\ pre.present
  /\ plan.Title # pre.m.Title /\ diag # ""

\* A provider input is set explicitly: a known string that is not blank, a
\* known flag, a known timeout other than 0.
SetString(v) == v.k = "value" /\ v.v \notin {"", " "}
SetBool(v) == v.k = "value"
SetInt(v) == v.k = "value" /\ v.v # 0

\* C11 as claimed: each of base URL, credential, TLS-verification bypass flag
\* and request timeout set explicitly in the provider block is the value the
\* client uses, whatever the SEQ_* environment variable holds; the timeout is
\* 30 seconds when neither is set.
ConfigWinsOverEnv ==
  (provider.configured /\ provider.diag = "") =>
     /\ SetString(provider.cfg.ServerURL) =>
          provider.client.baseURL = provider.cfg.ServerURL.v
     /\ SetString(provider.cfg.APIKey) =>
          provider.client.apiKey = provider.cfg.APIKey.v
     /\ SetBool(provider.cfg.InsecureSkipVerify) =>
          provider.client.insecureSkipVerify = provider.cfg.InsecureSkipVerify.v
     /\ SetInt(provider.cfg.TimeoutSeconds) =>
          provider.client.timeoutSeconds = provider.cfg.TimeoutSeconds.v
     /\ (provider.cfg.TimeoutSeconds.k = "null" /\ provider.env.SEQ_TIMEOUT_SECONDS = "") =>
          provider.client.timeoutSeconds = 30

\* The JSON object the last Create or Update sent.
SentBody == calls[1].body

PayloadKeys == {"Title", "OwnerId", "Permissions"}

\* C12 as claimed: the payload of Create and Update holds Title, always, with
\* the planned title; OwnerId only if the planned owner is set, known and
\* non-empty; Permissions only if the planned capability set is set, known
\* and non-empty; and no other key.
PayloadOmitsEmpty ==
  (op \in {"Create", "Update"} /\ Sent) =>
     /\ calls[1].hasBody /\ DOMAIN SentBody \subseteq PayloadKeys
     /\ "Title" \in DOMAIN SentBody /\ SentBody["Title"] = plan.Title.v
     /\ "OwnerId" \in DOMAIN SentBody =>
          (plan.OwnerID.k = "value" /\ plan.OwnerID.v # "")
     /\ "Permissions" \in DOMAIN SentBody =>
          (plan.Permissions.k = "value" /\ plan.Permissions.e # {})

\* C12 amended: the payload of Create and Update holds Title, always, with
\* the planned title; OwnerId exactly when the planned owner is set, known
\* and non-empty, with that owner; Permissions exactly when the planned
\* capability set is set and known, with its elements (none for an empty
\* set); and no other key.
PayloadByRule ==
  (op \in {"Create", "Update"} /\ Sent) =>
     /\ calls[1].hasBody /\ DOMAIN SentBody \subseteq PayloadKeys
     /\ "Title" \in DOMAIN SentBody /\ SentBody["Title"] = plan.Title.v
     /\ "OwnerId" \in DOMAIN SentBody <=>
          (plan.OwnerID.k = "value" /\ plan.OwnerID.v # "")
     /\ "OwnerId" \in DOMAIN SentBody => SentBody["OwnerId"] = plan.OwnerID.v
     /\ "Permissions" \in DOMAIN SentBody <=> plan.Permissions.k = "value"
     /\ "Permissions" \in DOMAIN SentBody =>
          SentBody["Permissions"] = {x.v : x \in plan.Permissions.e}

\* C12 witness: an Update planned with an empty owner and an empty capability
\* set sent Title and an empty Permissions list.
UpdateSentEmptyPermissions ==
  /\ Done("Update") /\ Sent
  /\ plan.OwnerID = [k |-> "value", v |-> ""]
  /\ plan.Permissions = [k |-> "value", e |-> {}]
  /\ DOMAIN SentBody = {"Title", "Permissions"} /\ SentBody["Permissions"] = {}

\* The credential the provider block and the environment configure.
Credential ==
  IF SetString(provider.cfg.APIKey) THEN provider.cfg.APIKey.v
  ELSE provider.env.SEQ_API_KEY

\* Request q carries the X-Seq-ApiKey header with the configured credential
\* if there is one, and no such header otherwise.
CarriesCredential(q) ==
  IF Credential # "" THEN q.hasKey /\ q.key = Credential ELSE ~q.hasKey

\* C13: every request of the client (the health probe of the provider, and
\* the requests of Create, Read, Update and Delete) carries the X-Seq-ApiKey
\* header with the configured credential, and none when no credential is
\* configured.
RequestsCarryCredential ==
  /\ \A i \in DOMAIN provider.ping : CarriesCredential(provider.ping[i])
  /\ \A i \in DOMAIN calls : CarriesCredential(calls[i])

\* C13 witness: with a credential configured, the health probe and a DELETE
\* were sent with it.
DeleteSentWithCredential ==
  /\ Done("Delete") /\ Sent /\ calls[1].method = "DELETE"
  /\ calls[1].hasKey /\ calls[1].key = "abc"
  /\ provider.ping # <<>> /\ provider.ping[1].hasKey /\ provider.ping[1].key = "abc"

====
